---- MODULE Spec2Model ----
(***************************************************************************)
(* The MKV storage engine of mos (storage/engine): an append-only log of   *)
(* records in numbered data files, an in-memory index from key to the      *)
(* location of the key's latest record, an index snapshot and a meta file  *)
(* written at Close, tail recovery at Open, and Merge (compaction).        *)
(*                                                                         *)
(* Files are modelled at the granularity of frames: a data file is the     *)
(* sequence of the frames written to it, every frame with its size in      *)
(* bytes, so offsets and sizes are the byte offsets and sizes of the code. *)
(* A frame's checksum is kept as the outcome of comparing it with the      *)
(* CRC-32 of the bytes before it ("ok" or "bad"); a "torn" frame is a      *)
(* chunk of bytes whose header or announced payload runs past the end of   *)
(* the file, so that reading it ends in io.EOF.  Keys all have the same    *)
(* length, so the entries of the index file are slots of one size.         *)
(* A crash is the process stopping: the bytes already written stay.        *)
(***************************************************************************)
EXTENDS Integers, Sequences, FiniteSets, TLC

\* ---------------------------------------------------------------- bounds
\* Opens, Puts, Deletes and Merges in one run.
MaxEvents == 5
\* config.DataFileMaxSize of the engine under test: a file takes two records.
DataFileMaxSize == 20
\* Records and damaged records of a data file given to RecoverDataFile.
MaxFrames == 3
\* config.MergeSpaceThreshold of the engine under test: one superseded record.
MergeSpaceThreshold == 10
\* Ticks of the ticker in one run.
MaxTicks == 2

Keys == {<<1>>, <<2>>}
Vals == {<<7>>, <<8, 8>>}
JunkSizes == {32}

\* ------------------------------------------------------ program constants
keyBegin == 7
checksumSize == 4
\* 1 << 32 in the code, scaled: the temporary engine of Merge never rolls over.
defaultDataFileMaxSize == 1000

NormalFlag == 0
\* defaultMergeRatio, 0.5, as a fraction.
MergeRatioNum == 1
MergeRatioDen == 2

\* ------------------------------------------------------------- utilities
EmptyMap == [x \in {} |-> 0]
MapPut(f, k, v) == [x \in (DOMAIN f) \cup {k} |-> IF x = k THEN v ELSE f[x]]
MapDel(f, k) == [x \in (DOMAIN f) \ {k} |-> f[x]]
MaxOf(S) == CHOOSE x \in S : \A y \in S : y <= x
MinOf(S) == CHOOSE x \in S : \A y \in S : x <= y

RECURSIVE SortedIds(_)
SortedIds(S) ==
    IF S = {} THEN <<>> ELSE <<MinOf(S)>> \o SortedIds(S \ {MinOf(S)})

Perms(S) ==
    {s \in [1..Cardinality(S) -> S] : \A i, j \in 1..Cardinality(S) : i # j => s[i] # s[j]}

\* ---------------------------------------------------------------- records
NewRecordWithoutChecksum(flag, key, value) ==
    [flag |-> flag, key |-> key, value |-> value, sum |-> "none", n |-> 0]

SetDeleted(r) == [r EXCEPT !.flag = 1]
IsDeleted(r) == r.flag = 1
RecordSize(r) == keyBegin + Len(r.key) + Len(r.value) + checksumSize
Corrupted(r) == r.sum # "ok"

\* The bytes of a record with the CRC-32 of its first bytes at the end.
EncodeRecordWithChecksum(r) == [r EXCEPT !.sum = "ok"]

\* The record MKV.Delete appends for key k.
Tombstone(k) == EncodeRecordWithChecksum(SetDeleted(NewRecordWithoutChecksum(NormalFlag, k, <<>>)))

\* Size in bytes of a frame of a data file.
FrameSize(it) == IF it.sum = "torn" THEN it.n ELSE RecordSize(it)

RECURSIVE FileSize(_)
FileSize(f) == IF f = <<>> THEN 0 ELSE FrameSize(Head(f)) + FileSize(Tail(f))

OffsetOf(f, i) == FileSize(SubSeq(f, 1, i - 1))

\* The frame that starts at a byte offset (0 when none does).
FrameAt(f, offset) ==
    IF \E i \in 1..Len(f) : OffsetOf(f, i) = offset
    THEN CHOOSE i \in 1..Len(f) : OffsetOf(f, i) = offset
    ELSE 0

NoRecord == [flag |-> 0, key |-> <<>>, value |-> <<>>, sum |-> "none", n |-> 0]

\* DataFile.ReadRecordAt: header, payload and checksum read one after the other;
\* a read that reaches the end of the file returns io.EOF.
ReadRecordAt(f, offset) ==
    LET i == FrameAt(f, offset) IN
    IF i = 0 \/ f[i].sum = "torn"
    THEN [err |-> "EOF", rec |-> NoRecord]
    ELSE [err |-> "nil", rec |-> f[i]]

\* DataFile.ReadEntireRecordAt followed by DecodeRecord: one read of size bytes.
ReadEntireRecordAt(df, f, offset, size) ==
    LET i == FrameAt(f, offset) IN
    IF df.closed THEN [err |-> "closed", rec |-> NoRecord]
    ELSE IF offset + size > FileSize(f) THEN [err |-> "EOF", rec |-> NoRecord]
    ELSE IF i # 0 /\ f[i].sum # "torn" /\ RecordSize(f[i]) = size
    THEN [err |-> "nil", rec |-> f[i]]
    ELSE [err |-> "garbage", rec |-> NoRecord]

\* NewDataFile: the handle of dir/<id>.data, its end the size of the file.
NewDataFile(data, id, readOnly) ==
    [id |-> id, end |-> IF id \in DOMAIN data THEN FileSize(data[id]) ELSE 0,
     ro |-> readOnly, closed |-> FALSE]

\* os.OpenFile(O_RDWR|O_CREATE): the file is created empty when it is missing.
CreateIfMissing(data, id) == IF id \in DOMAIN data THEN data ELSE MapPut(data, id, <<>>)

CloseFile(df) == [df EXCEPT !.closed = TRUE]

\* The frames that lie wholly in the first offset bytes of a file.
RECURSIVE ReadFull(_, _)
ReadFull(f, offset) ==
    IF f = <<>> \/ FrameSize(Head(f)) > offset THEN <<>>
    ELSE <<Head(f)>> \o ReadFull(Tail(f), offset - FrameSize(Head(f)))

\* A scan that takes every byte of the file as good.
RecoverScanNone(f, offset) == FileSize(f)

RECURSIVE RecoverScan(_, _)
RecoverScan(f, offset) ==
    LET r == ReadRecordAt(f, offset) IN
    IF r.err = "EOF" THEN offset
    ELSE IF Corrupted(r.rec) THEN offset
    ELSE RecoverScan(f, offset + RecordSize(r.rec))

\* RecoverDataFile: the file is rewritten with its valid prefix when the scan
\* stopped before its end.
RecoverDataFile(f, end) ==
    LET offset == RecoverScan(f, 0) IN
    IF offset = end
    THEN [recovered |-> FALSE, file |-> f, end |-> end]
    ELSE [recovered |-> TRUE, file |-> ReadFull(f, offset), end |-> offset]

\* ------------------------------------------------------------------ index
NewEntry(id, offset, size) == [ID |-> id, Offset |-> offset, Size |-> size]
NoEntry == NewEntry(0, 0, 0)

RECURSIVE LoadIndexFromDataFileAt(_, _, _, _)
LoadIndexFromDataFileAt(index, id, f, offset) ==
    LET r == ReadRecordAt(f, offset) IN
    IF r.err = "EOF" THEN index
    ELSE LET deleted == IF IsDeleted(r.rec) THEN MapDel(index, r.rec.key) ELSE index
             entry == NewEntry(id, offset, RecordSize(r.rec))
         IN LoadIndexFromDataFileAt(MapPut(deleted, r.rec.key, entry), id, f,
                                    offset + RecordSize(r.rec))

RECURSIVE LoadIndexFromDataFiles(_, _, _)
LoadIndexFromDataFiles(index, data, ids) ==
    IF ids = <<>> THEN index
    ELSE LoadIndexFromDataFiles(
             LoadIndexFromDataFileAt(index, Head(ids), data[Head(ids)], 0),
             data, Tail(ids))

\* The index file and the hint files: slots <<key, entry>>, one after the other.
NoFile == [exists |-> FALSE, slots |-> <<>>]

\* SaveIndex: the file is opened without O_TRUNC and written from offset 0 in
\* the order the map is ranged over; what the file held past that stays.
SaveIndex(old, index, order) ==
    LET new == [i \in 1..Len(order) |-> <<order[i], index[order[i]]>>] IN
    [exists |-> TRUE, slots |-> new \o SubSeq(old.slots, Len(new) + 1, Len(old.slots))]

RECURSIVE LoadSlots(_, _)
LoadSlots(index, slots) ==
    IF slots = <<>> THEN index
    ELSE LoadSlots(MapPut(index, Head(slots)[1], Head(slots)[2]), Tail(slots))

LoadIndex(file) == LoadSlots(EmptyMap, file.slots)

\* A hint file that holds every entry of the index.
createHintFileOfAll(index, id) ==
    LET order == CHOOSE o \in Perms(DOMAIN index) : TRUE IN
    [i \in 1..Len(order) |-> <<order[i], index[order[i]]>>]

\* createHintFile and SaveHint: the file is created anew and gets one slot
\* <<key, entry>> for every entry of the index that lies in data file id, in
\* the order of a range over a map (one order here: no reader depends on it).
createHintFile(index, id) ==
    LET hint == {x \in DOMAIN index : index[x].ID = id}
        order == CHOOSE o \in Perms(hint) : TRUE
    IN  [i \in 1..Len(order) |-> <<order[i], index[order[i]]>>]

\* LoadHint: every slot of a hint file is put in the index.
LoadHint(hint, index) == LoadSlots(index, hint)

\* LoadIndexFromHintFiles: the hint files in the order of their names.
RECURSIVE LoadIndexFromHintFiles(_, _, _)
LoadIndexFromHintFiles(index, hints, ids) ==
    IF ids = <<>> THEN index
    ELSE LoadIndexFromHintFiles(LoadHint(hints[Head(ids)], index), hints, Tail(ids))

\* ------------------------------------------------------------------- meta
NewMeta == [IndexUpToDate |-> FALSE, ReusableSpace |-> 0]
NoMeta == [exists |-> FALSE, meta |-> NewMeta]
LoadMeta(mf) == IF mf.exists THEN mf.meta ELSE NewMeta
SaveMeta(meta) == [exists |-> TRUE, meta |-> meta]

\* ----------------------------------------------------------------- engine
\* An engine is the pair of its directory and its MKV struct:
\*   dir = [data, hint, indexFile, metaFile]   the files of the directory
\*   m   = [cur, dataFiles, index, meta, isMerging]
NoDir == [data |-> EmptyMap, hint |-> EmptyMap, indexFile |-> NoFile, metaFile |-> NoMeta]
NoHandle == [id |-> 0, end |-> 0, ro |-> FALSE, closed |-> TRUE]
NoMKV ==
    [cur |-> NoHandle, dataFiles |-> EmptyMap, index |-> EmptyMap, meta |-> NewMeta,
     isMerging |-> FALSE]

\* An Open that keeps the index file whatever the recovery did.
DiscardIndexNever(recovered, indexFile) == indexFile

\* Open removes the index file when the recovery rewrote the active file.
DiscardIndex(recovered, indexFile) == IF recovered THEN NoFile ELSE indexFile

\* Open after the directory lock is taken: meta, data files, tail recovery of
\* the active file, then the index from the snapshot or from a scan.
OpenEngine(d) ==
    LET meta == LoadMeta(d.metaFile)
        ids == SortedIds(DOMAIN d.data)
    IN  IF ids = <<>>
        THEN LET data1 == CreateIfMissing(d.data, 0) IN
             [dir |-> [d EXCEPT !.data = data1],
              m |-> [cur |-> NewDataFile(data1, 0, FALSE), dataFiles |-> EmptyMap,
                     index |-> EmptyMap, meta |-> meta, isMerging |-> FALSE]]
        ELSE LET curId == ids[Len(ids)]
                 rec == RecoverDataFile(d.data[curId], FileSize(d.data[curId]))
                 data1 == [d.data EXCEPT ![curId] = rec.file]
                 indexFile1 == DiscardIndex(rec.recovered, d.indexFile)
                 index == IF meta.IndexUpToDate /\ indexFile1.exists
                          THEN LoadIndex(indexFile1)
                          ELSE LoadIndexFromDataFiles(EmptyMap, data1, ids)
             IN  [dir |-> [d EXCEPT !.data = data1, !.indexFile = indexFile1],
                  m |-> [cur |-> NewDataFile(data1, curId, FALSE),
                         dataFiles |-> [id \in (DOMAIN d.data) \ {curId} |->
                                           NewDataFile(data1, id, TRUE)],
                         index |-> index, meta |-> meta, isMerging |-> FALSE]]

\* A Put or Delete that keeps the active file whatever its size.
mayCreateNewDataFileNever(e, maxSize) == e

\* mayCreateNewDataFile: the rollover of Put and Delete.
mayCreateNewDataFile(e, maxSize) ==
    IF e.m.cur.end < maxSize THEN e
    ELSE LET id == e.m.cur.id
             data1 == CreateIfMissing(e.dir.data, id + 1)
         IN  [dir |-> [e.dir EXCEPT !.data = data1,
                                    !.hint = MapPut(@, id, createHintFile(e.m.index, id))],
              m |-> [e.m EXCEPT !.dataFiles = MapPut(@, id, NewDataFile(e.dir.data, id, TRUE)),
                                !.cur = NewDataFile(data1, id + 1, FALSE)]]

\* An append that does not move the end of the file.
AppendRecordInPlace(df, f, record) ==
    [err |-> "nil", offset |-> df.end, size |-> RecordSize(record),
     file |-> ReadFull(f, df.end) \o <<EncodeRecordWithChecksum(record)>>, df |-> df]

\* DataFile.AppendRecord: the encoded record is written at df.end.
AppendRecord(df, f, record) ==
    IF df.ro THEN [err |-> "errReadOnly", offset |-> 0, size |-> 0, file |-> f, df |-> df]
    ELSE IF df.closed THEN [err |-> "closed", offset |-> 0, size |-> 0, file |-> f, df |-> df]
    ELSE LET bytes == EncodeRecordWithChecksum(record)
             size == RecordSize(bytes)
         IN  [err |-> "nil", offset |-> df.end, size |-> size,
              file |-> ReadFull(f, df.end) \o <<bytes>>,
              df |-> [df EXCEPT !.end = @ + size]]

\* A write that counts no dead record.
SupersedeNever(m, key) == m

\* A write of a new key that forgets the reusable space counted so far.
SupersedeOrForget(m, key) ==
    IF key \in DOMAIN m.index
    THEN [m EXCEPT !.meta.ReusableSpace = @ + m.index[key].Size]
    ELSE [m EXCEPT !.meta.ReusableSpace = 0]

\* The reusable space after a write of key: the size of the entry the key had
\* is added to it.
Supersede(m, key) ==
    IF key \in DOMAIN m.index
    THEN [m EXCEPT !.meta.ReusableSpace = @ + m.index[key].Size]
    ELSE m

\* Put up to the append: the rollover, then the record at the end of the
\* active file.
PutAppend(e, key, value, maxSize) ==
    LET e1 == mayCreateNewDataFile(e, maxSize)
        record == NewRecordWithoutChecksum(NormalFlag, key, value)
        a == AppendRecord(e1.m.cur, e1.dir.data[e1.m.cur.id], record)
    IN  IF a.err # "nil" THEN [err |-> a.err, e |-> e1, entry |-> NoEntry]
        ELSE [err |-> "nil",
              e |-> [dir |-> [e1.dir EXCEPT !.data[e1.m.cur.id] = a.file],
                     m |-> [e1.m EXCEPT !.cur = a.df]],
              entry |-> NewEntry(e1.m.cur.id, a.offset, a.size)]

\* A Put that leaves the entry of a key the index already holds.
PutIndexKeepsOld(mm, key, entry) ==
    IF key \in DOMAIN mm.index THEN mm ELSE [mm EXCEPT !.index = MapPut(@, key, entry)]

\* The rest of Put: the reusable space, then the entry in the index.
PutIndex(mm, key, entry) ==
    [Supersede(mm, key) EXCEPT !.index = MapPut(@, key, entry)]

EnginePut(e, key, value, maxSize) ==
    LET a == PutAppend(e, key, value, maxSize) IN
    IF a.err # "nil" THEN [err |-> a.err, e |-> a.e]
    ELSE [err |-> "nil", e |-> [dir |-> a.e.dir, m |-> PutIndex(a.e.m, key, a.entry)]]

EngineDelete(e, key, maxSize) ==
    LET e1 == mayCreateNewDataFile(e, maxSize)
        record == SetDeleted(NewRecordWithoutChecksum(NormalFlag, key, <<>>))
        a == AppendRecord(e1.m.cur, e1.dir.data[e1.m.cur.id], record)
    IN  IF a.err # "nil" THEN [err |-> a.err, e |-> e1]
        ELSE [err |-> "nil",
              e |-> [dir |-> [e1.dir EXCEPT !.data[e1.m.cur.id] = a.file],
                     m |-> [Supersede(e1.m, key) EXCEPT
                               !.cur = a.df,
                               !.index = MapDel(@, key)]]]

EngineGet(e, key) ==
    IF key \notin DOMAIN e.m.index THEN [err |-> "ErrKeyNotFound", val |-> <<>>]
    ELSE LET entry == e.m.index[key]
             id == entry.ID
         IN  IF id # e.m.cur.id /\ id \notin DOMAIN e.m.dataFiles
             THEN [err |-> "panic", val |-> <<>>]
             ELSE LET df == IF id = e.m.cur.id THEN e.m.cur ELSE e.m.dataFiles[id]
                      f == IF id \in DOMAIN e.dir.data THEN e.dir.data[id] ELSE <<>>
                      r == ReadEntireRecordAt(df, f, entry.Offset, entry.Size)
                  IN  IF r.err # "nil" THEN [err |-> r.err, val |-> <<>>]
                      ELSE [err |-> "nil", val |-> r.rec.value]

\* MKV.close: index snapshot, meta, then every data file is closed.
EngineClose(e, order) ==
    LET meta1 == [e.m.meta EXCEPT !.IndexUpToDate = TRUE] IN
    [dir |-> [e.dir EXCEPT !.indexFile = SaveIndex(@, e.m.index, order),
                           !.metaFile = SaveMeta(meta1)],
     m |-> [e.m EXCEPT !.meta = meta1,
                       !.dataFiles = [id \in DOMAIN @ |-> CloseFile(@[id])],
                       !.cur = CloseFile(@)]]

\* The sub-steps of MKV.close that can return an error: SaveIndex, SaveMeta
\* and the Close of a data file.
CloseSteps == {"index", "meta", "files"}

\* MKV.close when the sub-steps in fails return an error: it returns at the
\* first of them, and what the sub-steps before it did stays done.
EngineCloseIO(e, order, fails) ==
    LET meta1 == [e.m.meta EXCEPT !.IndexUpToDate = TRUE]
        saved == [e EXCEPT !.dir.indexFile = SaveIndex(@, e.m.index, order)]
        flagged == [saved EXCEPT !.m.meta = meta1]
        written == [flagged EXCEPT !.dir.metaFile = SaveMeta(meta1)]
    IN  IF "index" \in fails THEN [err |-> "index", e |-> e]
        ELSE IF "meta" \in fails THEN [err |-> "meta", e |-> flagged]
        ELSE IF "files" \in fails THEN [err |-> "files", e |-> written]
        ELSE [err |-> "nil", e |-> EngineClose(e, order)]

\* What can fail in Put after the rollover: the append, the sync.
PutFaults == {"none", "append", "sync"}

\* A Put that puts the entry in the index before it syncs.
EnginePutIOEager(e, key, value, maxSize, sw, fault) ==
    LET a == PutAppend(e, key, value, maxSize) IN
    IF fault = "append" \/ a.err # "nil"
    THEN [err |-> "EIO", e |-> mayCreateNewDataFile(e, maxSize),
          appended |-> FALSE, synced |-> FALSE]
    ELSE [err |-> IF sw /\ fault = "sync" THEN "EIO" ELSE "nil",
          e |-> [dir |-> a.e.dir, m |-> PutIndex(a.e.m, key, a.entry)],
          appended |-> TRUE, synced |-> sw /\ fault # "sync"]

\* MKV.Put with config.SyncWrite sw when the step named by fault returns an
\* error: appended tells whether the record was written, synced whether
\* Sync was called on the active file and returned nil.
EnginePutIO(e, key, value, maxSize, sw, fault) ==
    LET a == PutAppend(e, key, value, maxSize)
        e1 == mayCreateNewDataFile(e, maxSize)
    IN  IF fault = "append"
        THEN [err |-> "EIO", e |-> e1, appended |-> FALSE, synced |-> FALSE]
        ELSE IF a.err # "nil"
        THEN [err |-> a.err, e |-> a.e, appended |-> FALSE, synced |-> FALSE]
        ELSE IF sw /\ fault = "sync"
        THEN [err |-> "EIO", e |-> a.e, appended |-> TRUE, synced |-> FALSE]
        ELSE [err |-> "nil",
              e |-> [dir |-> a.e.dir, m |-> PutIndex(a.e.m, key, a.entry)],
              appended |-> TRUE, synced |-> sw]

\* MKV.Delete: the append is never followed by a Sync.
EngineDeleteIO(e, key, maxSize, sw, fault) ==
    LET r == EngineDelete(e, key, maxSize)
        e1 == mayCreateNewDataFile(e, maxSize)
    IN  IF fault = "append"
        THEN [err |-> "EIO", e |-> e1, appended |-> FALSE, synced |-> FALSE]
        ELSE [err |-> r.err, e |-> r.e, appended |-> r.err = "nil", synced |-> FALSE]

\* The active file holds an append that no Sync has followed: after a step
\* that left the engine as e1.
Dirty(was, e, e1, appended, synced) ==
    /\ ~synced
    /\ appended \/ (was /\ e1.m.cur.id = e.m.cur.id)

\* MKV.reload: the data files of the directory are opened again and the index
\* is read from the index file.
reload(e) ==
    LET ids == SortedIds(DOMAIN e.dir.data)
        curId == ids[Len(ids)]
    IN  IF ids = <<>>
        THEN LET data1 == CreateIfMissing(e.dir.data, 0) IN
             [dir |-> [e.dir EXCEPT !.data = data1],
              m |-> [e.m EXCEPT !.cur = NewDataFile(data1, 0, FALSE),
                                !.dataFiles = EmptyMap, !.index = EmptyMap]]
        ELSE [dir |-> e.dir,
              m |-> [e.m EXCEPT !.cur = NewDataFile(e.dir.data, curId, FALSE),
                                !.dataFiles = [id \in (DOMAIN e.dir.data) \ {curId} |->
                                                  NewDataFile(e.dir.data, id, TRUE)],
                                !.index = LoadIndex(e.dir.indexFile)]]

\* A finalization that moves no file of the temporary directory.
RenameNothing(into, from) == into

\* A file of the temporary directory renamed over the file of the same name.
Rename(into, from) ==
    [x \in (DOMAIN into) \cup (DOMAIN from) |-> IF x \in DOMAIN from THEN from[x] ELSE into[x]]

\* The last part of Merge, under the write lock: close, remove the merged data
\* files, move the files of the temporary engine in, reload.
Finalize(e, tmp, max, order) ==
    LET c == EngineClose(e, order)
        removed == {id \in DOMAIN c.m.dataFiles : ~(id > max)}
        kept == [id \in (DOMAIN c.dir.data) \ removed |-> c.dir.data[id]]
        d == [data |-> Rename(kept, tmp.dir.data),
              hint |-> Rename(c.dir.hint, tmp.dir.hint),
              indexFile |-> IF tmp.dir.indexFile.exists THEN tmp.dir.indexFile
                            ELSE c.dir.indexFile,
              metaFile |-> IF tmp.dir.metaFile.exists THEN tmp.dir.metaFile
                           ELSE c.dir.metaFile]
    IN  reload([dir |-> d,
                m |-> [c.m EXCEPT !.meta.ReusableSpace = 0, !.meta.IndexUpToDate = TRUE]])

\* Merge finalization that fails at one of its steps and returns the error:
\* what the steps before it did stays done.
FinalizeFailed(e, tmp, max, order, step) ==
    LET c == EngineClose(e, order)
        removed == {id \in DOMAIN c.m.dataFiles : ~(id > max)}
        kept == [id \in (DOMAIN c.dir.data) \ removed |-> c.dir.data[id]]
        d == [data |-> Rename(kept, tmp.dir.data),
              hint |-> Rename(c.dir.hint, tmp.dir.hint),
              indexFile |-> IF tmp.dir.indexFile.exists THEN tmp.dir.indexFile
                            ELSE c.dir.indexFile,
              metaFile |-> IF tmp.dir.metaFile.exists THEN tmp.dir.metaFile
                           ELSE c.dir.metaFile]
    IN  CASE step = "close" -> e
          [] step = "remove" -> c
          [] step = "rename" -> [dir |-> [c.dir EXCEPT !.data = kept], m |-> c.m]
          [] OTHER -> [dir |-> d,
                       m |-> [c.m EXCEPT !.meta.ReusableSpace = 0,
                                         !.meta.IndexUpToDate = TRUE]]

\* The steps of Merge finalization that can return an error.
FinalizeSteps == {"close", "remove", "rename", "reload"}

\* A Merge that leaves the flag alone.
SingleFlightOff(mm) == FALSE

\* The single-flight guard of Merge.
SingleFlight(mm) == mm.isMerging

\* closeCurrent and openNewDataFile of Merge.
closeCurrent(e) ==
    [e EXCEPT !.m.dataFiles = MapPut(@, e.m.cur.id, NewDataFile(e.dir.data, e.m.cur.id, TRUE)),
              !.m.cur = CloseFile(@)]

openNewDataFile(e) ==
    LET data1 == CreateIfMissing(e.dir.data, e.m.cur.id + 1) IN
    [e EXCEPT !.dir.data = data1, !.m.cur = NewDataFile(data1, e.m.cur.id + 1, FALSE)]

\* A directory lock that never refuses.
TryLockAlways(l) == TRUE

\* flock.TryLock on dir/.lock: true when no handle holds the lock.
TryLock(l) == l = 0

\* A Close that keeps the directory lock.
FlockKept(l) == l

\* flock.Unlock by the engine that holds the lock.
FlockUnlock(l) == l - 1

\* A mutex that excludes no one.
LockNever(mu) == TRUE

\* sync.RWMutex.Lock returns when no caller holds the mutex.
LockFree(mu) == mu = 0

\* ------------------------------------------------ records at byte offsets
\* A uint16 holds a number modulo this.
Uint16Range == 65536
uint16(x) == x % Uint16Range

\* The lengths of the keys and values and the flags the codec is run on.
KeyLens == {0, 1, 16, 255, 65528, 65529, 65535}
ValueLens == {0, 1, 65536}
Flags == {0, 1}

\* A byte slice, by where its bytes come from ("k": the caller's key, "v": the
\* caller's value, "b": other bytes of a buffer) and its length.
Slice(src, len) == IF len = 0 THEN [src |-> "empty", len |-> 0] ELSE [src |-> src, len |-> len]

\* The CRC-32 of a payload, by the payload.
Crc(flag, ksize, vsize, key, value) ==
    [flag |-> flag, ksize |-> ksize, vsize |-> vsize, key |-> key, value |-> value]
NoCrc == Crc(0, 0, 0, Slice("b", 0), Slice("b", 0))
BadCrc == Crc(0, 0, 0, Slice("b", 1), Slice("b", 1))

\* NewRecordWithoutChecksum on a key of klen bytes and a value of vlen bytes.
NewRecordBytes(flag, klen, vlen) ==
    [flag |-> flag, ksize |-> uint16(klen), vsize |-> vlen,
     key |-> Slice("k", klen), value |-> Slice("v", vlen), checksum |-> NoCrc]

generateChecksum(flag, key, value) == Crc(flag, uint16(key.len), value.len, key, value)

\* Record.Size.
SizeBytes(r) == keyBegin + r.key.len + r.value.len + checksumSize

\* Record.Corrupted.
CorruptedBytes(r) == r.checksum # generateChecksum(r.flag, r.key, r.value)

\* bytes[low:high] of a buffer of cap bytes panics unless low <= high <= cap.
InBounds(low, high, cap) == low <= high /\ high <= cap

Panic == [panic |-> TRUE]

\* EncodeRecordWithChecksum: valueStart is computed in uint16; checksumStart in
\* uint32 (the lengths here keep it below 2^31).
EncodeRecordBytes(r) ==
    LET size == SizeBytes(r)
        valueStart == uint16(keyBegin + r.ksize)
        checksumStart == valueStart + r.vsize
        key == IF valueStart - keyBegin = r.key.len THEN r.key
               ELSE Slice("b", valueStart - keyBegin)
        value == IF checksumStart - valueStart = r.value.len THEN r.value
                 ELSE Slice("b", checksumStart - valueStart)
    IN  IF ~InBounds(keyBegin, valueStart, size) THEN Panic
        ELSE IF ~InBounds(valueStart, checksumStart, size) THEN Panic
        ELSE IF ~InBounds(checksumStart, checksumStart + checksumSize, size) THEN Panic
        ELSE [panic |-> FALSE, size |-> size,
              flag |-> r.flag, ksize |-> r.ksize, vsize |-> r.vsize,
              valueStart |-> valueStart, key |-> key,
              checksumStart |-> checksumStart, value |-> value,
              checksum |-> Crc(r.flag, r.ksize, r.vsize, key, value)]

\* DecodeRecord: the same offsets, computed from the sizes of the header.
DecodeRecord(bytes) ==
    LET valueStart == uint16(keyBegin + bytes.ksize)
        checksumStart == valueStart + bytes.vsize
    IN  IF ~InBounds(keyBegin, valueStart, bytes.size) THEN Panic
        ELSE IF ~InBounds(valueStart, checksumStart, bytes.size) THEN Panic
        ELSE IF ~InBounds(checksumStart, checksumStart + checksumSize, bytes.size) THEN Panic
        ELSE [panic |-> FALSE,
              flag |-> bytes.flag, ksize |-> bytes.ksize, vsize |-> bytes.vsize,
              key |-> IF valueStart = bytes.valueStart THEN bytes.key
                      ELSE Slice("b", valueStart - keyBegin),
              value |-> IF valueStart = bytes.valueStart /\ checksumStart = bytes.checksumStart
                        THEN bytes.value
                        ELSE Slice("b", checksumStart - valueStart),
              checksum |-> IF checksumStart = bytes.checksumStart THEN bytes.checksum
                           ELSE BadCrc]

\* ------------------------------------------------------------------ state
VARIABLES
    dir,     \* the files of the root directory
    flock,   \* number of engines that hold the lock of the root directory
    phase,   \* "none": no engine; "open": Open returned; "closed": Close returned
    m,       \* the MKV struct of the engine
    mg,      \* the Merge call in flight: [pc, max, visited, tmp]
    g,       \* history of the run, for the properties
    ret,     \* the last call and what it returned
    mutex,   \* m.mutex: 0 when free, else the caller that holds it for writing
    calls,   \* the Put each concurrent caller is in: [pc, key, value, entry]
    rc,      \* a record on its way through the codec: [pc, rec, bytes, out]
    io,      \* config.SyncWrite, and whether an append has not been synced yet
    rv,      \* a data file on its way through RecoverDataFile
    bg       \* the goroutine of runBackGround, its ticker and closeChan

vars == <<dir, flock, phase, m, mg, g, ret, mutex, calls, rc, io, rv, bg>>
conc == <<mutex, calls, rc, io, rv, bg>>

NoRecover == [pc |-> "none", before |-> <<>>, file |-> <<>>, end |-> 0, recovered |-> FALSE]

\* DefaultConfig: SyncWrite is false.
DefaultIO == [SyncWrite |-> FALSE, dirty |-> FALSE]

NoCodec == [pc |-> "none", rec |-> Panic, bytes |-> Panic, out |-> Panic, corrupted |-> FALSE]

\* config.AutoMerging is false: Open starts no goroutine and makes no ticker.
NoTicker == [pc |-> "off", once |-> FALSE, buf |-> FALSE, stopped |-> FALSE,
             close |-> "idle", ticks |-> 0, past |-> 0, due |-> FALSE]

Callers == {1, 2}
NoCall == [pc |-> "idle", key |-> <<>>, value |-> <<>>, entry |-> NoEntry]

NoEngine == [dir |-> NoDir, m |-> NoMKV]
NoMerge == [pc |-> "idle", max |-> 0, visited |-> {}, tmp |-> NoEngine, past |-> 0, sel |-> <<>>]

Result(op, key, err, val) == [op |-> op, key |-> key, err |-> err, val |-> val]
NoRet == Result("none", <<>>, "nil", <<>>)
Found(v) == [err |-> "nil", val |-> v]
NotFound == [err |-> "ErrKeyNotFound", val |-> <<>>]
Unknown == [err |-> "unknown", val |-> <<>>]

E == [dir |-> dir, m |-> m]

\* Merge holds m.mutex for reading from closeCurrent to openNewDataFile.
ReadLocked == mg.pc = "sealed"
Get(k) == EngineGet(E, k)

InitEngine ==
    /\ dir = NoDir
    /\ flock = 0
    /\ phase = "none"
    /\ m = NoMKV
    /\ mg = NoMerge
    /\ ret = NoRet
    /\ mutex = 0
    /\ calls = [c \in Callers |-> NoCall]
    /\ io = DefaultIO
    /\ bg = NoTicker
    /\ g = [truth |-> [k \in Keys |-> NotFound],  \* the last completed write of each key
            sess |-> [k \in Keys |-> Unknown],    \* the same, within the session
            prev |-> [k \in Keys |-> Unknown],    \* sess at the end of the last session
            prevEnd |-> "none",                   \* how the last session ended
            prevMerged |-> FALSE,                 \* a Merge was called in the last session
            atClose |-> [k \in Keys |-> NotFound],\* what Get returned when Close was called
            sizeAtClose |-> 0,                    \* size of the active file at that time
            junked |-> FALSE,                     \* junk was appended since the last session
            clean |-> TRUE,                       \* no crash, junk or Merge so far
            mergeCalled |-> FALSE,                \* a Merge was called in this session
            wrote |-> FALSE,                      \* a write completed during the Merge
            snap |-> [k \in Keys |-> NotFound],   \* what Get returned when Merge was called
            files |-> {},                         \* the data files when Merge was called
            lastLocked |-> [k \in Keys |-> Unknown], \* the Put that took the mutex last
            submitted |-> [k \in Keys |-> {}],    \* the values callers have called Put with
            contended |-> FALSE,                  \* a Put took the mutex while another waited
            faults |-> {},                        \* the steps of the last Close that failed
            n |-> 0]                              \* events so far

Init == InitEngine /\ rc = NoCodec /\ rv = NoRecover

\* A record built from any flag, key length and value length.
InitRecord ==
    /\ InitEngine
    /\ rv = NoRecover
    /\ \E flag \in Flags, klen \in KeyLens, vlen \in ValueLens :
           rc = [NoCodec EXCEPT !.pc = "new", !.rec = NewRecordBytes(flag, klen, vlen)]

\* ---------------------------------------------------------------- actions
\* What Open returns at its TryLock.
OpenLock == IF TryLock(flock) THEN "nil" ELSE "ErrDirLocked"

Open ==
    /\ g.n < MaxEvents
    /\ OpenLock = "nil"
    /\ LET e == OpenEngine(dir) IN
       /\ dir' = e.dir
       /\ m' = e.m
    /\ flock' = flock + 1
    /\ phase' = "open"
    /\ mg' = NoMerge
    /\ ret' = Result("Open", <<>>, "nil", <<>>)
    /\ g' = [g EXCEPT !.sess = [k \in Keys |-> Unknown],
                      !.mergeCalled = FALSE, !.wrote = FALSE,
                      !.n = @ + 1]
    /\ UNCHANGED conc

\* An Open that finds the lock held returns ErrDirLocked and changes nothing.
OpenLocked ==
    /\ OpenLock = "ErrDirLocked"
    /\ ret' = Result("Open", <<>>, "ErrDirLocked", <<>>)
    /\ UNCHANGED <<dir, flock, phase, m, mg, g>>
    /\ UNCHANGED conc

Put(k, v) ==
    /\ LockFree(mutex)
    /\ ~ReadLocked
    /\ phase = "open"
    /\ g.n < MaxEvents
    /\ LET r == EnginePut(E, k, v, DataFileMaxSize) IN
       /\ dir' = r.e.dir
       /\ m' = r.e.m
       /\ ret' = Result("Put", k, r.err, v)
       /\ g' = IF r.err = "nil"
               THEN [g EXCEPT !.truth[k] = Found(v), !.sess[k] = Found(v),
                              !.wrote = @ \/ mg.pc # "idle", !.n = @ + 1]
               ELSE [g EXCEPT !.n = @ + 1]
    /\ UNCHANGED <<flock, phase, mg>>
    /\ UNCHANGED conc

Delete(k) ==
    /\ LockFree(mutex)
    /\ ~ReadLocked
    /\ phase = "open"
    /\ g.n < MaxEvents
    /\ LET r == EngineDelete(E, k, DataFileMaxSize) IN
       /\ dir' = r.e.dir
       /\ m' = r.e.m
       /\ ret' = Result("Delete", k, r.err, <<>>)
       /\ g' = IF r.err = "nil"
               THEN [g EXCEPT !.truth[k] = NotFound, !.sess[k] = NotFound,
                              !.wrote = @ \/ mg.pc # "idle", !.n = @ + 1]
               ELSE [g EXCEPT !.n = @ + 1]
    /\ UNCHANGED <<flock, phase, mg>>
    /\ UNCHANGED conc

\* Get changes nothing: what it returns in a state is Get(k).
GetKey(k) ==
    /\ phase = "open"
    /\ LockFree(mutex)
    /\ Get(k).err \in {"nil", "ErrKeyNotFound", "closed", "EOF", "garbage", "panic"}
    /\ UNCHANGED vars

\* Close, called when no Merge of the caller is in flight.
Close ==
    /\ LockFree(mutex)
    /\ phase = "open"
    /\ mg.pc = "idle"
    /\ \E order \in Perms(DOMAIN m.index) :
         LET e == EngineClose(E, order) IN
         /\ dir' = e.dir
         /\ m' = e.m
    /\ flock' = FlockUnlock(flock)
    /\ phase' = "closed"
    /\ ret' = Result("Close", <<>>, "nil", <<>>)
    /\ g' = [g EXCEPT !.prev = g.sess, !.prevEnd = "close", !.prevMerged = g.mergeCalled,
                      !.atClose = [k \in Keys |-> Get(k)], !.sizeAtClose = m.cur.end,
                      !.junked = FALSE]
    /\ UNCHANGED mg
    /\ UNCHANGED conc

\* The process stops: the lock is released, the files stay as they are.
Crash ==
    /\ phase = "open"
    /\ phase' = "none"
    /\ m' = NoMKV
    /\ flock' = 0
    /\ mg' = NoMerge
    /\ ret' = NoRet
    /\ g' = [g EXCEPT !.prev = g.sess, !.prevEnd = "crash", !.prevMerged = g.mergeCalled,
                      !.junked = FALSE, !.clean = FALSE]
    /\ UNCHANGED dir
    /\ UNCHANGED conc

Junk == [flag : {0}, key : {<<1>>}, value : {<<>>}, sum : {"torn"}, n : JunkSizes]
          \cup [flag : {0}, key : {<<1>>}, value : {<<9>>}, sum : {"bad"}, n : {0}]

\* Bytes that are no valid record are appended to the active file while no
\* engine has the directory open, once between two sessions.
AppendJunk(j) ==
    /\ phase # "open"
    /\ ~g.junked
    /\ DOMAIN dir.data # {}
    /\ dir' = [dir EXCEPT !.data[MaxOf(DOMAIN dir.data)] = Append(@, j)]
    /\ g' = [g EXCEPT !.junked = TRUE, !.clean = FALSE]
    /\ ret' = NoRet
    /\ UNCHANGED <<flock, phase, m, mg>>
    /\ UNCHANGED conc

\* Merge, up to the single-flight guard (under the write lock).
MergeEnter ==
    /\ LockFree(mutex)
    /\ phase = "open"
    /\ g.n < MaxEvents
    /\ ~SingleFlight(m)
    /\ m' = [m EXCEPT !.isMerging = TRUE]
    /\ mg' = [NoMerge EXCEPT !.pc = "seal", !.past = mg.past + 1]
    /\ ret' = NoRet
    /\ g' = [g EXCEPT !.mergeCalled = TRUE, !.clean = FALSE, !.wrote = FALSE,
                      !.snap = [k \in Keys |-> Get(k)], !.files = DOMAIN dir.data,
                      !.n = @ + 1]
    /\ UNCHANGED <<dir, flock, phase>>

\* Merge called by a caller of the engine.
MergeBegin ==
    /\ MergeEnter
    /\ UNCHANGED conc

\* A Merge called while another one is in flight returns nil at the guard.
MergeBusy ==
    /\ LockFree(mutex)
    /\ ~ReadLocked
    /\ phase = "open"
    /\ SingleFlight(m)
    /\ ret' = Result("Merge", <<>>, "nil", <<>>)
    /\ UNCHANGED <<dir, flock, phase, m, mg, g>>
    /\ UNCHANGED conc

\* Under the read lock, the active file is sealed and the ids to merge are
\* taken (closeCurrent, filesToMerge).
MergeSeal ==
    /\ LockFree(mutex)
    /\ mg.pc = "seal"
    /\ LET e1 == closeCurrent(E) IN
       /\ dir' = e1.dir
       /\ m' = e1.m
       /\ mg' = [mg EXCEPT !.pc = "sealed", !.max = MaxOf(DOMAIN e1.m.dataFiles)]
    /\ ret' = NoRet
    /\ UNCHANGED <<flock, phase, g>>
    /\ UNCHANGED conc

\* Still under the read lock, the next active file is opened (openNewDataFile).
MergeOpenNew ==
    /\ mg.pc = "sealed"
    /\ LET e2 == openNewDataFile(E) IN
       /\ dir' = e2.dir
       /\ m' = e2.m
    /\ mg' = [mg EXCEPT !.pc = "tmp"]
    /\ ret' = NoRet
    /\ UNCHANGED <<flock, phase, g>>
    /\ UNCHANGED conc

\* The temporary engine is opened on a new, empty directory.
MergeOpenTmp ==
    /\ mg.pc = "tmp"
    /\ mg' = [mg EXCEPT !.pc = "replay", !.tmp = OpenEngine(NoDir)]
    /\ ret' = NoRet
    /\ UNCHANGED <<dir, flock, phase, m, g>>
    /\ UNCHANGED conc

\* One turn of the replay loop: a key the range has not produced yet.
MergeReplay(k) ==
    /\ mg.pc = "replay"
    /\ k \in (DOMAIN m.index) \ mg.visited
    /\ m.index[k].ID > mg.max \/ LockFree(mutex)
    /\ IF m.index[k].ID > mg.max
       THEN /\ mg' = [mg EXCEPT !.visited = @ \cup {k}]
            /\ ret' = NoRet
            /\ UNCHANGED m
       ELSE LET got == Get(k)
                put == EnginePut(mg.tmp, k, got.val, defaultDataFileMaxSize)
                err == IF got.err # "nil" THEN got.err ELSE put.err
            IN  IF err # "nil"
                THEN /\ mg' = NoMerge
                     /\ m' = [m EXCEPT !.isMerging = FALSE]
                     /\ ret' = Result("Merge", <<>>, err, <<>>)
                ELSE /\ mg' = [mg EXCEPT !.visited = @ \cup {k}, !.tmp = put.e]
                     /\ ret' = NoRet
                     /\ UNCHANGED m
    /\ UNCHANGED <<dir, flock, phase, g>>
    /\ UNCHANGED conc

\* The range is over: the temporary engine is closed.
MergeCloseTmp ==
    /\ mg.pc = "replay"
    /\ DOMAIN m.index \subseteq mg.visited
    /\ \E order \in Perms(DOMAIN mg.tmp.m.index) :
         mg' = [mg EXCEPT !.pc = "final", !.tmp = EngineClose(mg.tmp, order)]
    /\ ret' = NoRet
    /\ UNCHANGED <<dir, flock, phase, m, g>>
    /\ UNCHANGED conc

\* The last part of Merge (under the write lock), and its return.
MergeFinalize ==
    /\ LockFree(mutex)
    /\ mg.pc = "final"
    /\ \E order \in Perms(DOMAIN m.index) :
         LET e == Finalize(E, mg.tmp, mg.max, order) IN
         /\ dir' = e.dir
         /\ m' = [e.m EXCEPT !.isMerging = FALSE]
    /\ mg' = NoMerge
    /\ ret' = Result("Merge", <<>>, "nil", <<>>)
    /\ UNCHANGED <<flock, phase, g>>
    /\ UNCHANGED conc

\* Merge finalization fails at a step (an I/O error) and Merge returns the
\* error; the deferred calls unlock and reset the flag.
MergeFinalizeFail(step) ==
    /\ LockFree(mutex)
    /\ mg.pc = "final"
    /\ \E order \in Perms(DOMAIN m.index) :
         LET e == FinalizeFailed(E, mg.tmp, mg.max, order, step) IN
         /\ dir' = e.dir
         /\ m' = [e.m EXCEPT !.isMerging = FALSE]
    /\ mg' = NoMerge
    /\ ret' = Result("Merge", <<>>, "EIO", <<>>)
    /\ UNCHANGED <<flock, phase, g>>
    /\ UNCHANGED conc

\* Put called by one of several concurrent callers: the call, the write lock,
\* the append, then the index and the return (the deferred Unlock).
PutCall(c, k, v) ==
    /\ phase = "open"
    /\ g.n < MaxEvents
    /\ calls[c].pc = "idle"
    /\ calls' = [calls EXCEPT ![c] = [pc |-> "lock", key |-> k, value |-> v, entry |-> NoEntry]]
    /\ g' = [g EXCEPT !.submitted[k] = @ \cup {v}, !.n = @ + 1]
    /\ UNCHANGED <<dir, flock, phase, m, mg, ret, mutex, rc, io, rv, bg>>

PutLock(c) ==
    /\ calls[c].pc = "lock"
    /\ LockFree(mutex)
    /\ mutex' = c
    /\ calls' = [calls EXCEPT ![c].pc = "append"]
    /\ g' = [g EXCEPT !.lastLocked[calls[c].key] = Found(calls[c].value),
                      !.contended = @ \/ \E d \in Callers \ {c} :
                                             /\ calls[d].pc = "lock"
                                             /\ calls[d].key = calls[c].key
                                             /\ calls[d].value # calls[c].value]
    /\ UNCHANGED <<dir, flock, phase, m, mg, ret, rc, io, rv, bg>>

PutAppendStep(c) ==
    /\ calls[c].pc = "append"
    /\ LET a == PutAppend(E, calls[c].key, calls[c].value, DataFileMaxSize) IN
       /\ dir' = a.e.dir
       /\ m' = a.e.m
       /\ IF a.err # "nil"
          THEN /\ calls' = [calls EXCEPT ![c] = NoCall]
               /\ mutex' = 0
               /\ ret' = Result("Put", calls[c].key, a.err, calls[c].value)
          ELSE /\ calls' = [calls EXCEPT ![c].pc = "index", ![c].entry = a.entry]
               /\ UNCHANGED <<mutex, ret>>
    /\ UNCHANGED <<flock, phase, mg, g, rc, io, rv, bg>>

PutIndexStep(c) ==
    /\ calls[c].pc = "index"
    /\ m' = PutIndex(m, calls[c].key, calls[c].entry)
    /\ mutex' = 0
    /\ calls' = [calls EXCEPT ![c] = NoCall]
    /\ ret' = Result("Put", calls[c].key, "nil", calls[c].value)
    /\ g' = [g EXCEPT !.truth[calls[c].key] = Found(calls[c].value),
                      !.sess[calls[c].key] = Found(calls[c].value)]
    /\ UNCHANGED <<dir, flock, phase, mg, rc, io, rv, bg>>

Next ==
    \/ Open
    \/ \E k \in Keys, v \in Vals : Put(k, v)
    \/ \E k \in Keys : Delete(k)
    \/ \E k \in Keys : GetKey(k)
    \/ Close
    \/ Crash
    \/ \E j \in Junk : AppendJunk(j)
    \/ MergeBegin
    \/ MergeSeal
    \/ MergeOpenNew
    \/ MergeOpenTmp
    \/ \E k \in Keys : MergeReplay(k)
    \/ MergeCloseTmp
    \/ MergeFinalize

Spec == Init /\ [][Next]_vars

\* Several callers call Put at the same time on one open engine.
NextLWW ==
    \/ Open
    \/ \E c \in Callers, k \in Keys, v \in Vals : PutCall(c, k, v)
    \/ \E c \in Callers : PutLock(c)
    \/ \E c \in Callers : PutAppendStep(c)
    \/ \E c \in Callers : PutIndexStep(c)
    \/ \E k \in Keys : GetKey(k)

SpecLWW == Init /\ [][NextLWW]_vars

\* One session with Merge: calls made while a Merge is in flight, and I/O
\* errors during finalization.
NextMerge ==
    \/ Open
    \/ \E k \in Keys, v \in Vals : Put(k, v)
    \/ \E k \in Keys : Delete(k)
    \/ \E k \in Keys : GetKey(k)
    \/ MergeBegin
    \/ MergeBusy
    \/ MergeSeal
    \/ MergeOpenNew
    \/ MergeOpenTmp
    \/ \E k \in Keys : MergeReplay(k)
    \/ MergeCloseTmp
    \/ MergeFinalize
    \/ \E step \in FinalizeSteps : MergeFinalizeFail(step)

SpecMerge == Init /\ [][NextMerge]_vars

\* One directory and the engines that try to open it.
NextLock ==
    \/ Open
    \/ OpenLocked
    \/ \E k \in Keys, v \in Vals : Put(k, v)
    \/ \E k \in Keys : Delete(k)
    \/ \E k \in Keys : GetKey(k)
    \/ Close
    \/ Crash

SpecLock == Init /\ [][NextLock]_vars

\* Open with config.SyncWrite set to sw.
OpenIO(sw) ==
    /\ g.n < MaxEvents
    /\ OpenLock = "nil"
    /\ LET e == OpenEngine(dir) IN
       /\ dir' = e.dir
       /\ m' = e.m
    /\ flock' = flock + 1
    /\ phase' = "open"
    /\ ret' = Result("Open", <<>>, "nil", <<>>)
    /\ io' = [SyncWrite |-> sw, dirty |-> FALSE]
    /\ g' = [g EXCEPT !.sess = [k \in Keys |-> Unknown], !.n = @ + 1]
    /\ UNCHANGED <<mg, mutex, calls, rc, rv, bg>>

\* Put when the append or the sync may return an error.
PutIO(k, v, fault) ==
    /\ phase = "open"
    /\ g.n < MaxEvents
    /\ fault = "sync" => io.SyncWrite
    /\ LET r == EnginePutIO(E, k, v, DataFileMaxSize, io.SyncWrite, fault) IN
       /\ dir' = r.e.dir
       /\ m' = r.e.m
       /\ ret' = Result("Put", k, r.err, v)
       /\ io' = [io EXCEPT !.dirty = Dirty(@, E, r.e, r.appended, r.synced)]
       /\ g' = IF r.err = "nil"
               THEN [g EXCEPT !.truth[k] = Found(v), !.sess[k] = Found(v), !.n = @ + 1]
               ELSE [g EXCEPT !.n = @ + 1]
    /\ UNCHANGED <<flock, phase, mg, mutex, calls, rc, rv, bg>>

\* Delete when the append may return an error.
DeleteIO(k, fault) ==
    /\ phase = "open"
    /\ g.n < MaxEvents
    /\ LET r == EngineDeleteIO(E, k, DataFileMaxSize, io.SyncWrite, fault) IN
       /\ dir' = r.e.dir
       /\ m' = r.e.m
       /\ ret' = Result("Delete", k, r.err, <<>>)
       /\ io' = [io EXCEPT !.dirty = Dirty(@, E, r.e, r.appended, r.synced)]
       /\ g' = IF r.err = "nil"
               THEN [g EXCEPT !.truth[k] = NotFound, !.sess[k] = NotFound, !.n = @ + 1]
               ELSE [g EXCEPT !.n = @ + 1]
    /\ UNCHANGED <<flock, phase, mg, mutex, calls, rc, rv, bg>>

\* Close when the sub-steps in fails return an error: the deferred function
\* unlocks the mutex and the directory lock on every return.
CloseIO(fails) ==
    /\ phase = "open"
    /\ \E order \in Perms(DOMAIN m.index) :
         LET r == EngineCloseIO(E, order, fails) IN
         /\ dir' = r.e.dir
         /\ m' = r.e.m
         /\ ret' = Result("Close", <<>>, r.err, <<>>)
    /\ flock' = FlockUnlock(flock)
    /\ phase' = "closed"
    /\ g' = [g EXCEPT !.prev = g.sess, !.prevEnd = "close", !.faults = fails]
    /\ UNCHANGED <<mg, mutex, calls, rc, io, rv, bg>>

\* The Open of a new directory, before the writes of the session.
OpenNew ==
    /\ phase = "none"
    /\ g.prevEnd = "none"
    /\ OpenLock = "nil"
    /\ LET e == OpenEngine(dir) IN
       /\ dir' = e.dir
       /\ m' = e.m
    /\ flock' = flock + 1
    /\ phase' = "open"
    /\ ret' = Result("Open", <<>>, "nil", <<>>)
    /\ UNCHANGED <<mg, g>>
    /\ UNCHANGED conc

\* One session of Puts, Deletes and Gets on a new directory: the active file
\* rolls over twice.
NextSession ==
    \/ OpenNew
    \/ \E k \in Keys, v \in Vals : Put(k, v)
    \/ \E k \in Keys : Delete(k)
    \/ \E k \in Keys : GetKey(k)

SpecSession == Init /\ [][NextSession]_vars

\* One engine on a directory whose reads and writes may fail.
NextIO ==
    \/ \E sw \in BOOLEAN : OpenIO(sw)
    \/ \E k \in Keys, v \in Vals, fault \in PutFaults : PutIO(k, v, fault)
    \/ \E k \in Keys, fault \in PutFaults \ {"sync"} : DeleteIO(k, fault)
    \/ \E k \in Keys : GetKey(k)
    \/ \E fails \in SUBSET CloseSteps : CloseIO(fails)

SpecIO == Init /\ [][NextIO]_vars

\* DataFile.AppendRecord encodes the record of a Put; a panic ends the process.
RecordEncode ==
    /\ rc.pc = "new"
    /\ LET bytes == EncodeRecordBytes(rc.rec) IN
       rc' = [rc EXCEPT !.pc = IF bytes.panic THEN "panic" ELSE "encoded", !.bytes = bytes]
    /\ UNCHANGED <<dir, flock, phase, m, mg, g, ret, mutex, calls, io, rv, bg>>

\* DataFile.ReadEntireRecordAt decodes the bytes for a Get.
RecordDecode ==
    /\ rc.pc = "encoded"
    /\ LET out == DecodeRecord(rc.bytes) IN
       rc' = [rc EXCEPT !.pc = IF out.panic THEN "panic" ELSE "decoded", !.out = out]
    /\ UNCHANGED <<dir, flock, phase, m, mg, g, ret, mutex, calls, io, rv, bg>>

\* Record.Corrupted on the decoded record.
RecordCheck ==
    /\ rc.pc = "decoded"
    /\ rc' = [rc EXCEPT !.pc = "checked", !.corrupted = CorruptedBytes(rc.out)]
    /\ UNCHANGED <<dir, flock, phase, m, mg, g, ret, mutex, calls, io, rv, bg>>

\* One record through the codec.
NextRecord ==
    \/ RecordEncode
    \/ RecordDecode
    \/ RecordCheck

SpecRecord == InitRecord /\ [][NextRecord]_vars

\* The frames of a data file under recovery: the record of a Put, a tombstone,
\* and a complete record whose checksum does not match.
RecoverFrames ==
    {EncodeRecordWithChecksum(NewRecordWithoutChecksum(NormalFlag, <<1>>, <<7>>)),
     Tombstone(<<2>>)}
        \cup {j \in Junk : j.sum = "bad"}

\* Data files of up to MaxFrames such frames, with or without a chunk of
\* bytes at the end that is no complete record.
DamagedFiles ==
    LET whole == UNION {[1..n -> RecoverFrames] : n \in 0..MaxFrames} IN
    whole \cup {f \o <<j>> : f \in whole, j \in {x \in Junk : x.sum = "torn"}}

\* A data file as NewDataFile finds it, before RecoverDataFile.
InitRecover ==
    /\ InitEngine
    /\ rc = NoCodec
    /\ \E f \in DamagedFiles :
           rv = [pc |-> "file", before |-> f, file |-> f, end |-> FileSize(f),
                 recovered |-> FALSE]

\* RecoverDataFile on the file.
RecoverFile ==
    /\ rv.pc = "file"
    /\ LET r == RecoverDataFile(rv.file, rv.end) IN
       rv' = [rv EXCEPT !.pc = "recovered", !.file = r.file, !.end = r.end,
                        !.recovered = r.recovered]
    /\ UNCHANGED <<dir, flock, phase, m, mg, g, ret, mutex, calls, rc, io, bg>>

\* DataFile.AppendRecord on the handle after the recovery.
AppendAfterRecover(k, v) ==
    /\ rv.pc = "recovered"
    /\ LET df == [id |-> 0, end |-> rv.end, ro |-> FALSE, closed |-> FALSE]
           a == AppendRecord(df, rv.file, NewRecordWithoutChecksum(NormalFlag, k, v))
       IN  rv' = [rv EXCEPT !.pc = "appended", !.file = a.file, !.end = a.df.end]
    /\ UNCHANGED <<dir, flock, phase, m, mg, g, ret, mutex, calls, rc, io, bg>>

\* One data file through recovery and an append.
NextRecover ==
    \/ RecoverFile
    \/ \E k \in Keys, v \in Vals : AppendAfterRecover(k, v)

SpecRecover == InitRecover /\ [][NextRecover]_vars

\* RecoverDataFile step by step, for a process that may stop in between. The
\* scan finds the end of the valid prefix, io.ReadFull reads the prefix into
\* memory and os.WriteFile opens the file with O_TRUNC: the file is empty.
RecoverTruncate ==
    /\ rv.pc = "file"
    /\ RecoverScan(rv.file, 0) # rv.end
    /\ rv' = [rv EXCEPT !.pc = "truncated", !.file = <<>>]
    /\ UNCHANGED <<dir, flock, phase, m, mg, g, ret, mutex, calls, rc, io, bg>>

\* os.WriteFile writes the prefix, and RecoverDataFile returns true.
RecoverWrite ==
    /\ rv.pc = "truncated"
    /\ LET offset == RecoverScan(rv.before, 0) IN
       rv' = [rv EXCEPT !.pc = "recovered", !.file = ReadFull(rv.before, offset),
                        !.end = offset, !.recovered = TRUE]
    /\ UNCHANGED <<dir, flock, phase, m, mg, g, ret, mutex, calls, rc, io, bg>>

\* The scan ends at the end of the file: RecoverDataFile returns false.
RecoverIntact ==
    /\ rv.pc = "file"
    /\ RecoverScan(rv.file, 0) = rv.end
    /\ rv' = [rv EXCEPT !.pc = "recovered"]
    /\ UNCHANGED <<dir, flock, phase, m, mg, g, ret, mutex, calls, rc, io, bg>>

\* The process stops: the file stays as it is.
RecoverCrash ==
    /\ rv.pc \in {"file", "truncated", "recovered"}
    /\ rv' = [rv EXCEPT !.pc = "crashed"]
    /\ UNCHANGED <<dir, flock, phase, m, mg, g, ret, mutex, calls, rc, io, bg>>

\* One data file through a recovery that a crash may interrupt.
NextRecoverCrash ==
    \/ RecoverTruncate
    \/ RecoverWrite
    \/ RecoverIntact
    \/ RecoverCrash

SpecRecoverCrash == InitRecover /\ [][NextRecoverCrash]_vars

\* ----------------------------------------------------- Open that fails
\* The steps of Open after TryLock that can return an error: LoadMeta,
\* LoadDataFiles, RecoverDataFile, and the load of the index.
OpenSteps == {"meta", "files", "recover", "index"}

\* Open returns the error of one of these steps: every `return nil, err` after
\* TryLock leaves the function without a call of lock.Unlock. The directory is
\* as the steps before have left it.
OpenFail(step) ==
    /\ g.n < MaxEvents
    /\ OpenLock = "nil"
    /\ step \in {"recover", "index"} => DOMAIN dir.data # {}
    /\ dir' = IF step = "index" THEN OpenEngine(dir).dir ELSE dir
    /\ flock' = flock + 1
    /\ ret' = Result("Open", <<>>, "EIO", <<>>)
    /\ g' = [g EXCEPT !.n = @ + 1]
    /\ UNCHANGED <<phase, m, mg>>
    /\ UNCHANGED conc

\* The Flock of a failed Open is garbage: when the collector gets to it, the
\* finalizer of its os.File closes the descriptor, which drops the lock.
LockCollected ==
    /\ phase # "open"
    /\ flock > 0
    /\ flock' = FlockUnlock(flock)
    /\ UNCHANGED <<dir, phase, m, mg, g, ret>>
    /\ UNCHANGED conc

\* Sessions on a directory whose Open may fail after it has taken the lock.
NextOpenFail ==
    \/ Open
    \/ OpenLocked
    \/ \E step \in OpenSteps : OpenFail(step)
    \/ LockCollected
    \/ \E k \in Keys, v \in Vals : Put(k, v)
    \/ \E k \in Keys : GetKey(k)
    \/ Close

SpecOpenFail == Init /\ [][NextOpenFail]_vars

\* ------------------------------------------------- the background ticker
\* The caller of Close as a holder of m.mutex.
Closer == 3

\* The sizes of the handles of the sealed files, added up.
RECURSIVE SumOfEnds(_)
SumOfEnds(dataFiles) ==
    IF DOMAIN dataFiles = {} THEN 0
    ELSE LET id == MinOf(DOMAIN dataFiles) IN
         dataFiles[id].end + SumOfEnds(MapDel(dataFiles, id))

\* float64(a)/float64(b) >= MergeRatioThreshold for a >= 0 and b >= 0: the
\* quotient is +Inf for b = 0 < a, and NaN, which compares false, for 0/0.
RatioAtLeast(a, b) ==
    IF b = 0 THEN a > 0 ELSE a * MergeRatioDen >= MergeRatioNum * b

\* A decision that does not look at the ratio.
mayNeedMergeBySpace(mm) ==
    /\ mm.meta.ReusableSpace >= MergeSpaceThreshold
    /\ ~mm.isMerging

\* MKV.mayNeedMerge: whether it calls Merge.
mayNeedMerge(mm) ==
    LET size == mm.cur.end + SumOfEnds(mm.dataFiles) IN
    /\ mm.meta.ReusableSpace >= MergeSpaceThreshold
    /\ RatioAtLeast(mm.meta.ReusableSpace, size)
    /\ ~mm.isMerging

\* sync.Once.Do: the function runs on the first call only.
OnceDo(once) == ~once

\* Open of a new directory with config.AutoMerging: the ticker is made and the
\* goroutine of runBackGround starts at its select.
OpenAuto ==
    /\ phase = "none"
    /\ g.prevEnd = "none"
    /\ OpenLock = "nil"
    /\ LET e == OpenEngine(dir) IN
       /\ dir' = e.dir
       /\ m' = e.m
    /\ flock' = flock + 1
    /\ phase' = "open"
    /\ ret' = Result("Open", <<>>, "nil", <<>>)
    /\ bg' = [NoTicker EXCEPT !.pc = "select"]
    /\ UNCHANGED <<mg, g, mutex, calls, rc, io, rv>>

\* The ticker fires: the tick waits in ticker.C, a channel of capacity one (a
\* tick that finds the channel full is dropped).
TickFire ==
    /\ bg.pc \notin {"off", "done"}
    /\ ~bg.stopped
    /\ ~bg.buf
    /\ bg.ticks < MaxTicks
    /\ bg' = [bg EXCEPT !.buf = TRUE, !.ticks = @ + 1]
    /\ UNCHANGED <<dir, flock, phase, m, mg, g, ret, mutex, calls, rc, io, rv>>

\* The select of runBackGround takes the tick: once.Do runs mayNeedMerge, which
\* reads the sizes, the meta and the flag and may call Merge.
TickRecv ==
    /\ bg.pc = "select"
    /\ bg.buf
    /\ bg' = [bg EXCEPT !.buf = FALSE, !.once = TRUE,
                        !.pc = IF OnceDo(bg.once) /\ mayNeedMerge(m) THEN "call" ELSE "select",
                        !.due = OnceDo(bg.once) /\ mayNeedMerge(m)]
    /\ UNCHANGED <<dir, flock, phase, m, mg, g, ret, mutex, calls, rc, io, rv>>

\* The Merge called by mayNeedMerge gets the write lock and sets the flag.
TickMerge ==
    /\ bg.pc = "call"
    /\ MergeEnter
    /\ bg' = [bg EXCEPT !.pc = "merge"]
    /\ UNCHANGED <<mutex, calls, rc, io, rv>>

\* That Merge has returned: the goroutine is back at its select.
TickReturn ==
    /\ bg.pc = "merge"
    /\ mg.pc = "idle"
    /\ bg' = [bg EXCEPT !.pc = "select"]
    /\ UNCHANGED <<dir, flock, phase, m, mg, g, ret, mutex, calls, rc, io, rv>>

\* Close with config.AutoMerging, up to its send on closeChan: the write lock
\* is taken, close() has run and the ticker is stopped.
CloseAuto ==
    /\ phase = "open"
    /\ bg.close = "idle"
    /\ LockFree(mutex)
    /\ ~ReadLocked
    /\ \E order \in Perms(DOMAIN m.index) :
         LET e == EngineClose(E, order) IN
         /\ dir' = e.dir
         /\ m' = e.m
    /\ mutex' = Closer
    /\ bg' = [bg EXCEPT !.stopped = TRUE, !.close = "send"]
    /\ ret' = NoRet
    /\ UNCHANGED <<flock, phase, mg, g, calls, rc, io, rv>>

\* The select of runBackGround takes the value sent on closeChan: the
\* goroutine returns, and Close returns through its deferred unlocks.
Shutdown ==
    /\ bg.close = "send"
    /\ bg.pc = "select"
    /\ bg' = [bg EXCEPT !.pc = "done", !.close = "returned"]
    /\ mutex' = 0
    /\ flock' = FlockUnlock(flock)
    /\ phase' = "closed"
    /\ ret' = Result("Close", <<>>, "nil", <<>>)
    /\ UNCHANGED <<dir, m, mg, g, calls, rc, io, rv>>

\* The steps of the goroutine of runBackGround, and the receive that ends it.
NextTask ==
    \/ TickRecv
    \/ TickMerge
    \/ MergeSeal
    \/ MergeOpenNew
    \/ MergeOpenTmp
    \/ \E k \in Keys : MergeReplay(k)
    \/ MergeCloseTmp
    \/ MergeFinalize
    \/ TickReturn
    \/ Shutdown

\* One session of Puts and Gets on an engine opened with config.AutoMerging.
NextAuto ==
    \/ OpenAuto
    \/ \E k \in Keys, v \in Vals : Put(k, v)
    \/ \E k \in Keys : GetKey(k)
    \/ TickFire
    \/ CloseAuto
    \/ NextTask

SpecAuto == Init /\ [][NextAuto]_vars

\* The same, with a goroutine that goes on whenever it can.
SpecAutoLive == SpecAuto /\ WF_vars(NextTask)

\* ------------------------------------------------- Merge of large records
\* The longest value the 32-bit size field of a record takes, at the scale of
\* defaultDataFileMaxSize: its record alone fills a data file of the temporary
\* engine of Merge, which is opened with DefaultConfig.
BigVal == [i \in 1..(defaultDataFileMaxSize - 1) |-> 0]

\* The shortest of the values.
ShortVal == CHOOSE v \in Vals : \A w \in Vals : Len(v) <= Len(w)

\* Put of the long value, before Merge is called.
PutBig(k) ==
    /\ mg.pc = "idle"
    /\ Put(k, BigVal)

\* One session of Puts and a Merge, some of the records written before the
\* Merge being that large.
NextCompact ==
    \/ OpenNew
    \/ \E k \in Keys : Put(k, ShortVal)
    \/ \E k \in Keys : PutBig(k)
    \/ MergeBegin
    \/ MergeSeal
    \/ MergeOpenNew
    \/ MergeOpenTmp
    \/ \E k \in Keys : MergeReplay(k)
    \/ MergeCloseTmp
    \/ MergeFinalize

SpecCompact == Init /\ [][NextCompact]_vars

\* ------------------------------------------- the replay loop, step by step
\* The range over m.index produces a key and its entry; an entry in a file
\* newer than the merged ones is skipped.
MergeSelect(k) ==
    /\ mg.pc = "replay"
    /\ k \in (DOMAIN m.index) \ mg.visited
    /\ mg' = IF m.index[k].ID > mg.max
             THEN [mg EXCEPT !.visited = @ \cup {k}]
             ELSE [mg EXCEPT !.pc = "read", !.sel = k]
    /\ ret' = NoRet
    /\ UNCHANGED <<dir, flock, phase, m, g>>
    /\ UNCHANGED conc

\* The body of the loop for the key produced: m.Get, under the read lock, then
\* Put into the temporary engine; Merge returns the first error.
MergeRead ==
    /\ mg.pc = "read"
    /\ LockFree(mutex)
    /\ LET got == Get(mg.sel)
           put == EnginePut(mg.tmp, mg.sel, got.val, defaultDataFileMaxSize)
           err == IF got.err # "nil" THEN got.err ELSE put.err
       IN  IF err # "nil"
           THEN /\ mg' = NoMerge
                /\ m' = [m EXCEPT !.isMerging = FALSE]
                /\ ret' = Result("Merge", <<>>, err, <<>>)
           ELSE /\ mg' = [mg EXCEPT !.pc = "replay", !.visited = @ \cup {mg.sel},
                                    !.tmp = put.e, !.sel = <<>>]
                /\ ret' = NoRet
                /\ UNCHANGED m
    /\ UNCHANGED <<dir, flock, phase, g>>
    /\ UNCHANGED conc

\* One session in which Put and Delete run between the steps of a Merge.
NextReplay ==
    \/ OpenNew
    \/ \E k \in Keys : Put(k, ShortVal)
    \/ \E k \in Keys : Delete(k)
    \/ MergeBegin
    \/ MergeSeal
    \/ MergeOpenNew
    \/ MergeOpenTmp
    \/ \E k \in Keys : MergeSelect(k)
    \/ MergeRead
    \/ MergeCloseTmp
    \/ MergeFinalize

SpecReplay == Init /\ [][NextReplay]_vars

\* The end of the active file's handle is the size of the file.
EndIsSize == phase = "open" => m.cur.end = FileSize(dir.data[m.cur.id])


\* ------------------------------------------------------------- properties
AllIdle == \A c \in Callers : calls[c].pc = "idle"
Opened == phase = "open" /\ ret.op = "Open" /\ ret.err = "nil"
Merged == phase = "open" /\ ret.op = "Merge"

\* A key is written when a data file holds a record of a Put of it.
Written(k) ==
    \E id \in DOMAIN dir.data : \E i \in 1..Len(dir.data[id]) :
        /\ dir.data[id][i].key = k
        /\ dir.data[id][i].sum = "ok"
        /\ ~IsDeleted(dir.data[id][i])

\* C1: in a session of Puts, Deletes, Gets and rollovers (no Merge called),
\* once Put(k, v) has returned success, Get(k) returns v until the next
\* successful Put(k, .) or Delete(k).
PutThenGet ==
    (phase = "open" /\ ~g.mergeCalled) =>
        \A k \in Keys : g.sess[k].err = "nil" => Get(k) = g.sess[k]

\* The value is read from a sealed file, after a rollover, while another key
\* has been written since.
PutThenGetWitness ==
    /\ phase = "open" /\ ~g.mergeCalled
    /\ \E k \in Keys :
         /\ g.sess[k].err = "nil"
         /\ Get(k) = g.sess[k]
         /\ k \in DOMAIN m.index
         /\ m.index[k].ID \in DOMAIN m.dataFiles
         /\ \E k2 \in Keys \ {k} : g.sess[k2] # Unknown

\* C2: after Delete(k) has returned success, Get(k) returns ErrKeyNotFound
\* until a new Put(k, .) succeeds.
DeleteThenGet ==
    phase = "open" =>
        \A k \in Keys : g.sess[k] = NotFound => Get(k) = NotFound

\* C3: when all the concurrent Puts have returned, Get of a key returns the
\* value of the Put that took the write lock last, which is one of the values
\* Put was called with.
LastWriteWins ==
    (phase = "open" /\ AllIdle) =>
        \A k \in Keys : g.submitted[k] # {} =>
            /\ Get(k) = g.lastLocked[k]
            /\ Get(k).err = "nil"
            /\ Get(k).val \in g.submitted[k]

\* Two Puts of different values on one key waited for the lock together.
LastWriteWinsWitness ==
    /\ phase = "open" /\ AllIdle
    /\ g.contended
    /\ \E k \in Keys :
         /\ Cardinality(g.submitted[k]) = 2
         /\ Get(k) = g.lastLocked[k]

\* C4: when Merge has returned, Get of every key returns the last completed
\* write of the key, whether the write completed before or during the Merge.
MergeKeepsWrites ==
    (Merged /\ ret.err = "nil") =>
        \A k \in Keys : g.sess[k] # Unknown => Get(k) = g.sess[k]

OpenAfterJunk ==
    (Opened /\ g.prevEnd = "close" /\ g.junked) =>
        /\ \A k \in Keys : Written(k) => Get(k) = g.atClose[k]
        /\ m.cur.end = g.sizeAtClose

\* C7: when every session so far ended with a successful Close, Open yields an
\* engine where Get of every key returns the last completed write of the key.
OpenAfterClose ==
    (Opened /\ g.clean) =>
        \A k \in Keys : Get(k) = g.truth[k]

\* C8: after a session that stopped without Close, Open yields an engine where
\* every key that session Put last maps to the value of that Put.
OpenAfterCrash ==
    (Opened /\ g.prevEnd = "crash" /\ ~g.junked /\ ~g.prevMerged) =>
        \A k \in Keys : g.prev[k].err = "nil" => Get(k) = g.prev[k]

\* C9: at most one engine holds the lock of the directory, and while an engine
\* has the directory open every other Open returns ErrDirLocked.
OneEngine ==
    /\ flock <= 1
    /\ phase = "open" => OpenLock = "ErrDirLocked"
    /\ (ret.op = "Open" /\ ret.err = "ErrDirLocked") => (phase = "open" /\ flock = 1)

\* A second Open has returned ErrDirLocked on a directory that was closed and
\* opened again.
OneEngineWitness ==
    /\ phase = "open" /\ flock = 1
    /\ ret.op = "Open" /\ ret.err = "ErrDirLocked"
    /\ g.prevEnd = "close"

\* C10: after Close, the meta file flags the index as up to date, the index
\* file decodes to the index of the engine, and every data file is closed.
CloseSavesIndex ==
    phase = "closed" =>
        /\ LoadMeta(dir.metaFile).IndexUpToDate
        /\ LoadIndex(dir.indexFile) = m.index
        /\ m.cur.closed
        /\ \A id \in DOMAIN m.dataFiles : m.dataFiles[id].closed

\* The index read from the data files of the directory, in ascending id order.
IndexFromDataFiles ==
    LoadIndexFromDataFiles(EmptyMap, dir.data, SortedIds(DOMAIN dir.data))

\* The index read from the hint files, then from a scan of the active file.
IndexFromHintFiles ==
    LET ids == SortedIds(DOMAIN dir.data)
        curId == ids[Len(ids)]
    IN  LoadIndexFromDataFileAt(
            LoadIndexFromHintFiles(EmptyMap, dir.hint, SortedIds(DOMAIN dir.hint)),
            curId, dir.data[curId], 0)

\* The first session on a new directory, no Merge called.
FirstSession == g.prevEnd = "none" /\ ~g.mergeCalled

\* C11: the index rebuilt from the data files is the in-memory index that the
\* Puts and Deletes of the session produced.
RebuildIsIndex ==
    (phase = "open" /\ FirstSession) => IndexFromDataFiles = m.index

\* C12: at Close, the index built from the hint files of the sealed files and
\* a scan of the active file is the in-memory index.
HintsAreIndex ==
    (phase = "closed" /\ ret.op = "Close") => IndexFromHintFiles = m.index

\* C13: one data file is active, it has the highest id of the data files, it
\* is not in the sealed map, and every other data file is in the sealed map.
OneActiveFile ==
    phase = "open" =>
        /\ ~m.cur.closed /\ ~m.cur.ro
        /\ m.cur.id \in DOMAIN dir.data
        /\ \A id \in DOMAIN dir.data : id <= m.cur.id
        /\ m.cur.id \notin DOMAIN m.dataFiles
        /\ DOMAIN m.dataFiles = (DOMAIN dir.data) \ {m.cur.id}
        /\ \A id \in DOMAIN m.dataFiles : m.dataFiles[id].ro

\* The entry of key k names an open data file and the latest record of k, a
\* complete, checksum-valid record of a Put.
PointsAtLatest(k) ==
    LET entry == m.index[k] IN
    /\ entry.ID = m.cur.id \/ entry.ID \in DOMAIN m.dataFiles
    /\ entry.ID \in DOMAIN dir.data
    /\ LET f == dir.data[entry.ID]
           i == FrameAt(f, entry.Offset)
       IN  /\ i # 0
           /\ f[i].sum = "ok"
           /\ RecordSize(f[i]) = entry.Size
           /\ f[i].key = k
           /\ ~IsDeleted(f[i])
           /\ \A id \in DOMAIN dir.data : \A j \in 1..Len(dir.data[id]) :
                 (dir.data[id][j].key = k /\ dir.data[id][j].sum = "ok") =>
                     (id < entry.ID \/ (id = entry.ID /\ j <= i))

\* C14: every entry of the index names the active file or a sealed file and
\* the latest live record of its key, complete and checksum-valid.
IndexPointsAtLatest ==
    phase = "open" => \A k \in DOMAIN m.index : PointsAtLatest(k)

\* C15: within a session the reusable space never decreases, except at Merge
\* finalization, which sets it to 0.
ReusableSpaceGrows ==
    [][(phase = "open" /\ phase' = "open") =>
          IF mg.pc = "final" /\ mg'.pc = "idle" /\ ret'.err = "nil"
          THEN m'.meta.ReusableSpace = 0
          ELSE m'.meta.ReusableSpace >= m.meta.ReusableSpace]_vars

\* A Merge is about to finalize in a session whose overwrites and rollover
\* have raised the reusable space.
ReusableSpaceGrowsWitness ==
    /\ phase = "open"
    /\ mg.pc = "final"
    /\ m.meta.ReusableSpace > 0
    /\ \E k \in Keys : g.sess[k] # Unknown

\* C16: at most one Merge is past the guard, and a Merge called while another
\* is in flight returns nil and changes no file, index or meta.
OneMerge ==
    /\ [](mg.past <= 1)
    /\ [][(m.isMerging /\ mg' = mg /\ ret'.op = "Merge") =>
             (ret'.err = "nil" /\ dir' = dir /\ m' = m)]_vars

\* A Merge call has returned nil during the replay of the Merge in flight,
\* in a session with a write.
OneMergeWitness ==
    /\ phase = "open"
    /\ m.isMerging /\ mg.past = 1 /\ mg.pc = "replay"
    /\ ret = Result("Merge", <<>>, "nil", <<>>)
    /\ \E k \in Keys : g.sess[k].err = "nil"

\* C17: when Merge has returned an error, every data file that existed when
\* it was called still exists and every key reads what it read then.
MergeErrorKeepsState ==
    (Merged /\ ret.err # "nil" /\ ~g.wrote) =>
        /\ g.files \subseteq DOMAIN dir.data
        /\ \A k \in Keys : Get(k) = g.snap[k]

\* The decoded record has the flag, sizes, key and value of the record.
SameRecord(out, rec) ==
    /\ out.flag = rec.flag
    /\ out.ksize = rec.ksize
    /\ out.vsize = rec.vsize
    /\ out.key = rec.key
    /\ out.value = rec.value

Decoded == rc.pc \in {"decoded", "checked"}

\* C18: for every flag, key and value, encoding the record and decoding the
\* bytes gives the record back, and Corrupted is false on the decoded record.
RecordRoundTrip ==
    /\ rc.pc # "panic"
    /\ Decoded => SameRecord(rc.out, rc.rec)
    /\ rc.pc = "checked" => ~rc.corrupted

\* C19: for every key length from 0 to 65535 the value starts at 7 + len(key)
\* and the checksum at 7 + len(key) + len(value) in the encoder and in the
\* decoder, and the Get after the Put returns the value.
KeyLengthsFit ==
    rc.pc \notin {"none", "new"} =>
        /\ uint16(keyBegin + rc.rec.ksize) = keyBegin + rc.rec.key.len
        /\ rc.pc # "panic"
        /\ rc.pc = "encoded" => rc.bytes.checksumStart = keyBegin + rc.rec.key.len + rc.rec.value.len
        /\ Decoded => rc.out.value = rc.rec.value

\* The meta file says that the index file is up to date.
FlaggedFresh == LoadMeta(dir.metaFile).IndexUpToDate

\* C20: when Open has returned without error index_up_to_date is false, in
\* the engine and in the meta file, and after a session that ended without
\* Close the meta file does not say that the index file is up to date.
OpenClearsUpToDate ==
    /\ Opened => (~m.meta.IndexUpToDate /\ ~FlaggedFresh)
    /\ (phase = "none" /\ g.prevEnd = "crash") => ~FlaggedFresh

\* The error of the first sub-step of MKV.close among those that fail.
FirstFault(fails) ==
    LET steps == <<"index", "meta", "files">> IN
    IF fails = {} THEN "nil"
    ELSE steps[MinOf({i \in 1..Len(steps) : steps[i] \in fails})]

\* C21: when Close has returned, with nil or with the error of the first
\* sub-step that failed, the directory lock is released and an Open of the
\* directory does not return ErrDirLocked.
CloseReleasesLock ==
    /\ ret.op = "Close" =>
          /\ phase = "closed"
          /\ ret.err = FirstFault(g.faults)
          /\ flock = 0
    /\ phase = "closed" => OpenLock = "nil"

\* A Close whose SaveMeta and file Close both fail has returned the error of
\* SaveMeta, in a session that wrote a key.
CloseReleasesLockWitness ==
    /\ ret.op = "Close" /\ ret.err = "meta"
    /\ g.faults = {"meta", "files"}
    /\ flock = 0 /\ OpenLock = "nil"
    /\ DOMAIN m.index # {}

\* The step is a Put or a Delete of key k that returns nil.
Wrote(op, k) == ret'.op = op /\ ret'.key = k /\ ret'.err = "nil" /\ g'.n = g.n + 1

\* The last record of the active file after the step.
LastAppended == dir'.data[m'.cur.id][Len(dir'.data[m'.cur.id])]

\* C22: a Delete of a key the index does not hold appends a tombstone to the
\* active file and leaves the index and the reusable space as they are, and
\* the index rebuilt from the data files does not hold the key.
DeleteAbsentIsInert ==
    [][\A k \in Keys : (Wrote("Delete", k) /\ k \notin DOMAIN m.index) =>
          /\ dir'.data[m'.cur.id] # <<>>
          /\ LastAppended = Tombstone(k)
          /\ m'.index = m.index
          /\ m'.meta.ReusableSpace = m.meta.ReusableSpace
          /\ k \notin DOMAIN LoadIndexFromDataFiles(EmptyMap, dir'.data,
                                                    SortedIds(DOMAIN dir'.data))]_vars

\* The index entries of the keys other than k are the same after the step.
OthersKept(k) ==
    \A k2 \in Keys \ {k} :
        /\ k2 \in DOMAIN m.index <=> k2 \in DOMAIN m'.index
        /\ k2 \in DOMAIN m.index => m'.index[k2] = m.index[k2]

\* C23: a Put or Delete that starts with the active file N at or over
\* DataFileMaxSize seals N into the sealed map with its content as it is,
\* opens N+1 as the active file and appends its record there at offset 0,
\* with the index entries of the other keys unchanged; under DataFileMaxSize
\* the active file and the sealed map stay the same.
RolloverAtMax ==
    [][\A k \in Keys : (Wrote("Put", k) \/ Wrote("Delete", k)) =>
          IF m.cur.end >= DataFileMaxSize
          THEN /\ m'.cur.id = m.cur.id + 1
               /\ ~m'.cur.ro /\ ~m'.cur.closed
               /\ DOMAIN m'.dataFiles = (DOMAIN m.dataFiles) \cup {m.cur.id}
               /\ m'.dataFiles[m.cur.id].ro
               /\ dir'.data[m.cur.id] = dir.data[m.cur.id]
               /\ Len(dir'.data[m'.cur.id]) = 1
               /\ m'.cur.end = RecordSize(LastAppended)
               /\ ret'.op = "Put" => m'.index[k] = NewEntry(m'.cur.id, 0, m'.cur.end)
               /\ OthersKept(k)
          ELSE /\ m'.cur.id = m.cur.id
               /\ m'.dataFiles = m.dataFiles]_vars

\* A Put has rolled over: its record is the only one of the new active file
\* and another key has its entry in the file that was sealed.
RolloverAtMaxWitness ==
    /\ phase = "open" /\ ~g.mergeCalled
    /\ ret.op = "Put" /\ ret.err = "nil"
    /\ m.cur.id >= 1
    /\ m.index[ret.key] = NewEntry(m.cur.id, 0, m.cur.end)
    /\ Len(dir.data[m.cur.id]) = 1
    /\ m.cur.id - 1 \in DOMAIN m.dataFiles
    /\ \E k2 \in (DOMAIN m.index) \ {ret.key} : m.index[k2].ID = m.cur.id - 1

\* The number of slots of a hint file that hold key k.
SlotsOf(hint, k) == Cardinality({i \in 1..Len(hint) : hint[i][1] = k})

\* C24: the hint file written when a rollover seals file N holds one slot,
\* with the entry of the index, for every key whose entry is in file N at
\* that moment, and no slot for any other key.
HintHoldsSegment ==
    [][\A k \in Keys :
          ((Wrote("Put", k) \/ Wrote("Delete", k)) /\ m.cur.end >= DataFileMaxSize) =>
              /\ m.cur.id \in DOMAIN dir'.hint
              /\ LET hint == dir'.hint[m.cur.id] IN
                 /\ \A x \in Keys :
                       SlotsOf(hint, x) =
                           IF x \in DOMAIN m.index /\ m.index[x].ID = m.cur.id THEN 1 ELSE 0
                 /\ \A i \in 1..Len(hint) : hint[i][2] = m.index[hint[i][1]]]_vars

\* A Put has rolled over file 1, which holds two records: its hint file has
\* one slot, while another key of the index has its entry in file 0.
HintHoldsSegmentWitness ==
    /\ phase = "open"
    /\ ret.op = "Put" /\ ret.err = "nil"
    /\ m.cur.id = 2
    /\ Len(dir.data[2]) = 1
    /\ Len(dir.data[1]) = 2
    /\ 1 \in DOMAIN dir.hint
    /\ Len(dir.hint[1]) = 1
    /\ \E k2 \in (DOMAIN m.index) \ {ret.key} : m.index[k2].ID = 0

\* C25: a Put or Delete of key k that returns nil adds the size of the entry
\* k had in the index to the reusable space, and adds nothing when the index
\* did not hold k.
ReusableSpaceExact ==
    [][\A k \in Keys : (Wrote("Put", k) \/ Wrote("Delete", k)) =>
          m'.meta.ReusableSpace =
              m.meta.ReusableSpace + (IF k \in DOMAIN m.index THEN m.index[k].Size ELSE 0)]_vars

\* A key was Put twice and then deleted: the reusable space is the size of
\* its two records.
ReusableSpaceExactWitness ==
    /\ phase = "open"
    /\ ret.op = "Delete" /\ ret.err = "nil"
    /\ ret.key \notin DOMAIN m.index
    /\ m.meta.ReusableSpace =
           RecordSize(NewRecordWithoutChecksum(NormalFlag, ret.key, <<7>>))
           + RecordSize(NewRecordWithoutChecksum(NormalFlag, ret.key, <<8, 8>>))

\* C26: with SyncWrite configured, when a Put or a Delete has returned nil
\* the append it made to the active file has been followed by a Sync.
SyncAfterAppend ==
    (phase = "open" /\ io.SyncWrite /\ ret.op \in {"Put", "Delete"} /\ ret.err = "nil") =>
        ~io.dirty

\* C27: a Put that returns an error of the append or of the sync leaves the
\* index and the reusable space as they were, and Get of every key returns
\* what it returned before the Put.
FailedPutKeepsIndex ==
    [][(ret'.op = "Put" /\ ret'.err # "nil" /\ g'.n = g.n + 1) =>
          /\ m'.index = m.index
          /\ m'.meta.ReusableSpace = m.meta.ReusableSpace
          /\ \A k \in Keys : EngineGet([dir |-> dir', m |-> m'], k) = Get(k)]_vars

\* A Put of a key that has a value failed at the sync: its record is the last
\* of the active file and Get of the key returns the value it had.
FailedPutKeepsIndexWitness ==
    /\ phase = "open" /\ io.SyncWrite
    /\ ret.op = "Put" /\ ret.err = "EIO"
    /\ dir.data[m.cur.id] # <<>>
    /\ LET f == dir.data[m.cur.id] IN
       /\ f[Len(f)].key = ret.key
       /\ f[Len(f)].value = ret.val
    /\ Get(ret.key).err = "nil"
    /\ Get(ret.key).val # ret.val

\* The active file before the step, as the step found it after its rollover.
ActiveBefore == IF m'.cur.id = m.cur.id THEN dir.data[m.cur.id] ELSE <<>>

\* C28: no Put or Delete returns errReadOnly; the record of one that returns
\* nil is written to the active file, open for writing, at the end the file
\* had, which is the offset of the entry, and the end moves by the size of the
\* record; and no step but the finalization of Merge changes a sealed file.
AppendsToActive ==
    [][/\ (g'.n = g.n + 1 /\ ret'.op \in {"Put", "Delete"}) =>
             /\ ret'.err # "errReadOnly"
             /\ ~m'.cur.ro /\ ~m'.cur.closed
       /\ \A k \in Keys : (Wrote("Put", k) \/ Wrote("Delete", k)) =>
             /\ dir'.data[m'.cur.id] = ActiveBefore \o <<LastAppended>>
             /\ LastAppended.key = k
             /\ m'.cur.end = FileSize(ActiveBefore) + RecordSize(LastAppended)
             /\ m'.cur.id = m.cur.id => m.cur.end = FileSize(ActiveBefore)
             /\ ret'.op = "Put" =>
                   m'.index[k] = NewEntry(m'.cur.id, FileSize(ActiveBefore),
                                          RecordSize(LastAppended))
       /\ mg.pc # "final" =>
             \A id \in (DOMAIN m'.dataFiles) \cap (DOMAIN dir.data) :
                 dir'.data[id] = dir.data[id]]_vars

\* A Put has appended its record after another one in the active file while
\* a sealed file exists.
AppendsToActiveWitness ==
    /\ phase = "open"
    /\ ret.op = "Put" /\ ret.err = "nil"
    /\ DOMAIN m.dataFiles # {}
    /\ Len(dir.data[m.cur.id]) = 2
    /\ m.index[ret.key].ID = m.cur.id
    /\ m.index[ret.key].Offset = RecordSize(dir.data[m.cur.id][1])
    /\ m.cur.end = FileSize(dir.data[m.cur.id])

\* The longest prefix of a file made of complete records with a valid checksum.
ValidPrefix(f) ==
    SubSeq(f, 1, MaxOf({n \in 0..Len(f) : \A i \in 1..n : f[i].sum = "ok"}))

\* C29: RecoverDataFile returns true exactly when it made the file shorter;
\* after it the file is the longest prefix of complete, checksum-valid records
\* of the file it was given, the end of the handle is the size of that prefix
\* and an append goes there; a file of valid records only is left as it is.
RecoverKeepsValidPrefix ==
    rv.pc \in {"recovered", "appended"} =>
        LET prefix == ValidPrefix(rv.before) IN
        /\ rv.recovered <=> FileSize(prefix) < FileSize(rv.before)
        /\ rv.recovered <=> prefix # rv.before
        /\ rv.pc = "recovered" =>
              /\ rv.file = prefix
              /\ rv.end = FileSize(prefix)
        /\ rv.pc = "appended" =>
              /\ SubSeq(rv.file, 1, Len(rv.file) - 1) = prefix
              /\ Len(rv.file) = Len(prefix) + 1
              /\ rv.file[Len(rv.file)].sum = "ok"
              /\ rv.end = FileSize(rv.file)

\* A file with a valid record, a record with a wrong checksum and a valid
\* record after it was cut to its first record, and a record was appended.
RecoverKeepsValidPrefixWitness ==
    /\ rv.pc = "appended"
    /\ rv.recovered
    /\ Len(rv.before) = 3
    /\ rv.before[1].sum = "ok" /\ rv.before[2].sum = "bad" /\ rv.before[3].sum = "ok"
    /\ Len(rv.file) = 2
    /\ rv.file[1] = rv.before[1]

\* The step is an Open that returns nil and has made the active file shorter.
OpenTruncated ==
    /\ ret'.op = "Open" /\ ret'.err = "nil" /\ g'.n = g.n + 1
    /\ m'.cur.id \in DOMAIN dir.data
    /\ FileSize(dir'.data[m'.cur.id]) < FileSize(dir.data[m'.cur.id])

\* C30: an Open whose recovery truncated the active file removes the index
\* file and builds the index by a scan of the data files, and no entry of the
\* index reaches past the end the active file has after the truncation.
RecoveryDropsSnapshot ==
    [][OpenTruncated =>
          /\ ~dir'.indexFile.exists
          /\ m'.index = LoadIndexFromDataFiles(EmptyMap, dir'.data,
                                               SortedIds(DOMAIN dir'.data))
          /\ m'.cur.end = FileSize(dir'.data[m'.cur.id])
          /\ \A k \in DOMAIN m'.index :
                m'.index[k].ID = m'.cur.id =>
                    m'.index[k].Offset + m'.index[k].Size <= m'.cur.end]_vars

\* Open has returned after a clean Close and junk at the end of the active
\* file: the meta file still flags the index file, the index file is gone and
\* a key has its entry in the active file.
RecoveryDropsSnapshotWitness ==
    /\ Opened /\ g.prevEnd = "close" /\ g.junked
    /\ FlaggedFresh
    /\ ~dir.indexFile.exists
    /\ m.cur.end = FileSize(dir.data[m.cur.id])
    /\ \E k \in DOMAIN m.index : m.index[k].ID = m.cur.id

\* The sizes of the data files of the directory, added up.
RECURSIVE SumOfSizes(_)
SumOfSizes(data) ==
    IF DOMAIN data = {} THEN 0
    ELSE LET id == MinOf(DOMAIN data) IN
         FileSize(data[id]) + SumOfSizes(MapDel(data, id))

\* The merge thresholds hold and no merge is in flight.
MergeDue ==
    /\ m.meta.ReusableSpace >= MergeSpaceThreshold
    /\ m.meta.ReusableSpace * MergeRatioDen >= MergeRatioNum * SumOfSizes(dir.data)
    /\ ~m.isMerging

\* The goroutine of runBackGround takes a tick from the ticker.
TickTaken == bg.pc = "select" /\ bg.buf /\ ~bg'.buf

\* C31: with auto-merging, whenever the goroutine takes a tick while the merge
\* thresholds hold and no merge is in flight, Merge is called: on every tick,
\* not only on the first one.
EveryTickDecides ==
    [][TickTaken /\ MergeDue => bg'.pc = "call"]_vars

\* C32: with auto-merging, a Close that has been called returns and the
\* goroutine of runBackGround ends, wherever the goroutine is when Close is
\* called.
CloseReturns ==
    (bg.close = "send") ~> (bg.close = "returned" /\ bg.pc = "done")

MergeHold(pc) ==
    CASE pc = "idle" -> "W"
      [] pc = "seal" -> "R"
      [] pc = "sealed" -> "R"
      [] pc = "final" -> "W"
      [] OTHER -> "none"

\* The positions from which Merge's step reads the protected state: the sealing,
\* the range over m.index and the finalization.
MergeReads(pc) == pc \in {"seal", "sealed", "replay", "final"}

\* The state m.mutex protects.
Protected == <<m.cur, m.dataFiles, m.index, m.meta, m.isMerging>>

\* C34: a step of Merge that changes the active file handle, the sealed-file
\* map, the index, the meta counters or the is_merging flag holds m.mutex for
\* writing, and a step of Merge that reads them holds it at least for reading.
MergeHoldsMutex ==
    [][mg' # mg =>
          /\ Protected' # Protected => MergeHold(mg.pc) = "W"
          /\ MergeReads(mg.pc) => MergeHold(mg.pc) # "none"]_vars

\* C35: while a Merge is in flight, at every point of it, a Get of a key that is
\* in the index returns the key's value and no error.
GetDuringMerge ==
    \A k \in Keys :
        (phase = "open" /\ mg.pc # "idle" /\ k \in DOMAIN m.index) =>
            /\ Get(k).err = "nil"
            /\ g.sess[k] # Unknown => Get(k) = g.sess[k]

\* Merge returns nil from its finalization.
MergeDone == mg.pc = "final" /\ mg'.pc = "idle" /\ ret'.op = "Merge" /\ ret'.err = "nil"

RECURSIVE SumOfEntries(_)
SumOfEntries(index) ==
    IF DOMAIN index = {} THEN 0
    ELSE LET k == CHOOSE x \in DOMAIN index : TRUE IN
         index[k].Size + SumOfEntries(MapDel(index, k))

\* The sealed files hold one record per key of the index and nothing else.
Compact ==
    /\ SumOfSizes([id \in DOMAIN m.dataFiles |-> dir.data[id]]) = SumOfEntries(m.index)
    /\ \A id \in DOMAIN m.dataFiles : \A i \in 1..Len(dir.data[id]) :
           LET r == dir.data[id][i] IN
           /\ r.sum = "ok"
           /\ ~IsDeleted(r)
           /\ r.key \in DOMAIN m.index
           /\ m.index[r.key] = NewEntry(id, OffsetOf(dir.data[id], i), RecordSize(r))

RewriteIsAtomic ==
    rv.pc = "crashed" =>
        /\ rv.file = rv.before \/ rv.file = ValidPrefix(rv.before)
        /\ FileSize(rv.file) >= FileSize(ValidPrefix(rv.before))

\* C39: when Open has failed after it took the directory lock, the lock is
\* free again when Open returns: the next Open of the directory is not
\* rejected with ErrDirLocked.
FailedOpenFreesLock ==
    (ret.op = "Open" /\ ret.err = "EIO") => OpenLock = "nil"

\* C40: a Merge that runs while Put and Delete are called returns nil, also
\* when a key is deleted between the moment the replay loop produces it and
\* the moment the loop reads it.
MergeSucceeds ==
    ret.op = "Merge" => ret.err = "nil"

====
